---- MODULE Spec2Model ----
(***************************************************************************)
(* generate_diagram.py: a module-level script that declares three diagrams *)
(* with the `diagrams` package (Diagram / Cluster / Node / Edge) and prints *)
(* a summary.  The script is modelled statement by statement: `Program` is *)
(* the text of the script, `pc` the statement being executed, and the      *)
(* other variables are the state the statements act on: the module         *)
(* globals, the package's diagram and cluster contexts, the node and       *)
(* cluster objects, and the body of every graph handed to the engine.      *)
(***************************************************************************)
EXTENDS Integers, Sequences, FiniteSets, TLC

VARIABLES
    pc,        \* index in Program of the statement being executed
    diagram,   \* the package's current-diagram context (0: None)
    cluster,   \* the package's current-cluster context (0: None)
    globals,   \* module globals: variable name -> node id (0: unbound)
    nodes,     \* node objects, by id: [var, label, kind, diagram, cluster]
    clusters,  \* cluster objects, by id: [label, diagram, parent]
    dbody,     \* body of each diagram's root graph (sequence of entries)
    cbody,     \* body of each cluster's sub-graph (sequence of entries)
    status,    \* per diagram: NotStarted, Building, Sealed, Rendered, RenderFailed
    cause,     \* per diagram: the exception its render raised ("none")
    source,    \* per diagram: the graph description handed to the engine
    artifacts, \* files the engine wrote
    blocks,    \* the interpreter's stack of open with blocks: [t, id]
    exc,       \* the exception being propagated ("none")
    exitCode,  \* -1 while the interpreter runs, then the process exit code
    stdout     \* lines printed

vars == <<pc, diagram, cluster, globals, nodes, clusters, dbody, cbody,
          status, cause, source, artifacts, blocks, exc, exitCode, stdout>>

----------------------------------------------------------------------------
(* The statements of the script.  Every statement is a record with the same *)
(* fields; the constructors fill the fields a statement does not use.       *)

Stmt(op, line, name, kind, label, srcs, color, style) ==
    [op |-> op, line |-> line, name |-> name, kind |-> kind, label |-> label,
     srcs |-> srcs, color |-> color, style |-> style]

\* with Diagram(title, show=False, direction=dir, filename=name, outformat=["png"]):
DiagramOpen(line, title, dir, filename) ==
    Stmt("DiagramEnter", line, filename, dir, title, <<>>, "", "")
\* end of a with Diagram block
DiagramClose(line) == Stmt("DiagramExit", line, "", "", "", <<>>, "", "")
\* with Cluster(label):
ClusterOpen(line, label) == Stmt("ClusterEnter", line, "", "", label, <<>>, "", "")
\* end of a with Cluster block
ClusterClose(line) == Stmt("ClusterExit", line, "", "", "", <<>>, "", "")
\* var = Kind(label)
Decl(line, var, kind, label) == Stmt("Node", line, var, kind, label, <<>>, "", "")
\* src >> Edge(label=, color=, style=) >> dst
Link(line, src, label, color, style, dst) ==
    Stmt("Edge", line, dst, "edge", label, <<src>>, color, style)
\* src >> dst
Plain(line, src, dst) == Stmt("Edge", line, dst, "plain", "", <<src>>, "", "")
\* [s1, s2, ...] >> dst
FanOut(line, srcs, dst) == Stmt("Edge", line, dst, "plain", "", srcs, "", "")
\* if __name__ == "__main__": print(...) x 4
MainPrint(line) == Stmt("Print", line, "", "", "", <<>>, "", "")

Doc1 == <<
    DiagramOpen(25, "Amazon Q Business Shopify Plugin - Complete Architecture",
                "LR", "shopify-plugin-complete-architecture"),
    Decl(33, "amazon_q", "Custom", "Amazon Q Business Client"),
    Decl(34, "shopify", "Custom", "Shopify Admin API (External Service)"),
    ClusterOpen(36, "AWS Cloud Infrastructure"),
    Decl(38, "api", "APIGateway", "API Gateway (REST API)"),
    ClusterOpen(40, "Authentication & Authorization Layer"),
    Decl(42, "oauth_lambda", "Lambda", "OAuth Handler Lambda (/oauth/*)"),
    Decl(45, "authorizer_lambda", "Lambda", "Token Authorizer Lambda"),
    Decl(48, "auth_secrets", "SecretsManager", "OAuth Credentials Secret"),
    Decl(51, "auth_codes_table", "DynamoDB", "OAuth Authorization Codes Table"),
    ClusterClose(51),
    ClusterOpen(53, "Core Application Layer"),
    Decl(55, "main_lambda", "Lambda", "Shopify Plugin Handler Lambda"),
    Decl(58, "shopify_secrets", "SecretsManager", "Shopify API Credentials Secret"),
    ClusterClose(58),
    ClusterOpen(60, "Monitoring & Logging"),
    Decl(62, "logs", "CloudwatchLogs", "CloudWatch Logs (All Lambda logs)"),
    ClusterClose(62),
    ClusterClose(62),
    Link(65, "amazon_q", "1. OAuth Authorization Request", "blue", "bold", "api"),
    Link(66, "api", "OAuth Endpoints", "blue", "", "oauth_lambda"),
    Link(67, "oauth_lambda", "Read OAuth Credentials", "blue", "", "auth_secrets"),
    Link(68, "oauth_lambda", "Store Auth Code (with TTL)", "blue", "", "auth_codes_table"),
    Link(69, "oauth_lambda", "2. Authorization Code & Access Token", "blue", "bold", "api"),
    Link(70, "api", "3. OAuth Response", "blue", "bold", "amazon_q"),
    Link(73, "amazon_q", "4. API Request (Bearer Token)", "green", "bold", "api"),
    Link(74, "api", "5. Token Validation", "green", "", "authorizer_lambda"),
    Link(75, "authorizer_lambda", "Validate Token Format & Credentials", "green", "",
         "auth_secrets"),
    Link(76, "authorizer_lambda", "6. Allow/Deny Policy", "green", "", "api"),
    Link(79, "api", "7. Authorized Request (if token valid)", "orange", "bold",
         "main_lambda"),
    Link(80, "main_lambda", "8. Fetch Shopify Credentials", "orange", "", "shopify_secrets"),
    Link(81, "main_lambda", "9. Shopify API Calls (REST)", "orange", "bold", "shopify"),
    Link(84, "main_lambda", "Application Logs", "gray", "dashed", "logs"),
    Link(85, "oauth_lambda", "OAuth Logs", "gray", "dashed", "logs"),
    Link(86, "authorizer_lambda", "Auth Logs", "gray", "dashed", "logs"),
    DiagramClose(86) >>

Doc2 == <<
    DiagramOpen(89, "OAuth 2.0 Authorization Code Flow - Detailed Sequence",
                "TB", "oauth-flow-detailed-sequence"),
    ClusterOpen(97, "Client Application"),
    Decl(98, "qbusiness", "Custom", "Amazon Q Business"),
    ClusterClose(98),
    ClusterOpen(100, "Authorization Server (AWS API Gateway + Lambda)"),
    Decl(101, "auth_endpoint", "APIGateway", "/oauth/authorize Endpoint"),
    Decl(102, "token_endpoint", "APIGateway", "/oauth/token Endpoint"),
    Decl(103, "oauth_handler", "Lambda", "OAuth Handler Lambda"),
    Decl(104, "auth_secret", "SecretsManager", "OAuth Credentials"),
    Decl(105, "auth_codes_db", "DynamoDB", "Authorization Codes Table (DynamoDB)"),
    ClusterClose(105),
    ClusterOpen(107, "Resource Server (AWS)"),
    Decl(108, "api_gateway", "APIGateway", "Protected API Endpoints"),
    Decl(109, "authorizer", "Lambda", "Token Authorizer Lambda"),
    Decl(110, "resource_lambda", "Lambda", "Shopify Plugin Handler Lambda"),
    ClusterClose(110),
    Link(113, "qbusiness", "1. Authorization Request", "blue", "", "auth_endpoint"),
    Plain(114, "auth_endpoint", "oauth_handler"),
    Plain(115, "oauth_handler", "auth_secret"),
    Link(116, "oauth_handler", "Generate & Store Auth Code", "blue", "", "auth_codes_db"),
    Link(117, "oauth_handler", "2. Authorization Code", "blue", "", "qbusiness"),
    Link(119, "qbusiness", "3. Token Request", "green", "", "token_endpoint"),
    Plain(120, "token_endpoint", "oauth_handler"),
    Link(121, "oauth_handler", "Validate Auth Code", "green", "", "auth_codes_db"),
    Plain(122, "oauth_handler", "auth_secret"),
    Link(123, "oauth_handler", "4. Access Token (Bearer token)", "green", "", "qbusiness"),
    Link(125, "qbusiness", "5. API Request (Bearer token)", "orange", "", "api_gateway"),
    Plain(126, "api_gateway", "authorizer"),
    Plain(127, "authorizer", "auth_secret"),
    Link(128, "authorizer", "Allow/Deny Policy", "orange", "", "api_gateway"),
    Link(129, "api_gateway", "6. Protected Resource Access", "orange", "",
         "resource_lambda"),
    DiagramClose(129) >>

Doc3 == <<
    DiagramOpen(132, "Shopify Plugin API Operations Overview",
                "TB", "shopify-api-operations"),
    ClusterOpen(140, "Amazon Q Business Integration"),
    Decl(141, "qbusiness_client", "Custom", "Amazon Q Business"),
    ClusterClose(141),
    ClusterOpen(143, "AWS API Gateway Endpoints"),
    ClusterOpen(144, "Authentication Endpoints"),
    Decl(145, "oauth_auth", "APIGateway", "/oauth/authorize"),
    Decl(146, "oauth_token", "APIGateway", "/oauth/token"),
    ClusterClose(146),
    ClusterOpen(148, "Shopify Data Endpoints"),
    Decl(149, "products_api", "APIGateway", "/products /products/{id} (GET, POST, PUT)"),
    Decl(150, "orders_api", "APIGateway", "/orders /orders/{id} (GET)"),
    Decl(151, "customers_api", "APIGateway", "/customers /customers/{id} (GET)"),
    Decl(152, "inventory_api", "APIGateway", "/inventory /inventory/{id} (GET, PUT)"),
    Decl(153, "locations_api", "APIGateway", "/locations /locations/{id} (GET)"),
    ClusterClose(153),
    ClusterClose(153),
    ClusterOpen(155, "AWS Lambda Functions"),
    Decl(156, "oauth_lambda", "Lambda", "OAuth Handler"),
    Decl(157, "auth_lambda", "Lambda", "Token Authorizer"),
    Decl(158, "main_lambda", "Lambda", "Shopify Plugin Handler"),
    ClusterClose(158),
    ClusterOpen(160, "External Shopify API"),
    Decl(161, "shopify_api", "Custom", "Shopify Admin API"),
    ClusterClose(161),
    ClusterOpen(163, "AWS Storage & Security"),
    Decl(164, "secrets", "SecretsManager", "Credentials Secrets"),
    Decl(165, "dynamo", "DynamoDB", "Auth Codes Table"),
    Decl(166, "logs", "CloudwatchLogs", "CloudWatch Logs"),
    ClusterClose(166),
    Link(169, "qbusiness_client", "OAuth Flow", "blue", "", "oauth_auth"),
    Link(170, "qbusiness_client", "Token Exchange", "blue", "", "oauth_token"),
    Link(173, "qbusiness_client", "Product Queries", "green", "", "products_api"),
    Link(174, "qbusiness_client", "Order Queries", "green", "", "orders_api"),
    Link(175, "qbusiness_client", "Customer Queries", "green", "", "customers_api"),
    Link(176, "qbusiness_client", "Inventory Management", "green", "", "inventory_api"),
    Link(177, "qbusiness_client", "Location Queries", "green", "", "locations_api"),
    Plain(180, "oauth_auth", "oauth_lambda"),
    Plain(181, "oauth_token", "oauth_lambda"),
    Link(182, "products_api", "Authorized", "orange", "", "main_lambda"),
    Link(183, "orders_api", "Authorized", "orange", "", "main_lambda"),
    Link(184, "customers_api", "Authorized", "orange", "", "main_lambda"),
    Link(185, "inventory_api", "Authorized", "orange", "", "main_lambda"),
    Link(186, "locations_api", "Authorized", "orange", "", "main_lambda"),
    Link(189, "main_lambda", "REST API Calls", "red", "", "shopify_api"),
    Plain(192, "oauth_lambda", "dynamo"),
    Plain(193, "oauth_lambda", "secrets"),
    Plain(194, "auth_lambda", "secrets"),
    Plain(195, "main_lambda", "secrets"),
    FanOut(196, <<"oauth_lambda", "auth_lambda", "main_lambda">>, "logs"),
    DiagramClose(196) >>

\* the third block with the edge statement of a line replaced
Doc3With(line, stmt) ==
    [i \in DOMAIN Doc3 |-> IF Doc3[i].op = "Edge" /\ Doc3[i].line = line THEN stmt ELSE Doc3[i]]
\* line 195 naming the first diagram's shopify_secrets for secrets
ProgramStaleTarget ==
    Doc1 \o Doc2 \o Doc3With(195, Plain(195, "main_lambda", "shopify_secrets"))
    \o << MainPrint(198) >>
\* line 194 naming the first diagram's authorizer_lambda for auth_lambda
ProgramStaleSource ==
    Doc1 \o Doc2 \o Doc3With(194, Plain(194, "authorizer_lambda", "secrets"))
    \o << MainPrint(198) >>

Program == Doc1 \o Doc2 \o Doc3 \o << MainPrint(198) >>

----------------------------------------------------------------------------
(* Static structure of the script.                                          *)

\* number of statements with operation op among prog[1..n]
CountOp(prog, op, n) == Cardinality({ j \in 1 .. n : prog[j].op = op })

NumDocs == CountOp(Program, "DiagramEnter", Len(Program))
Docs == 1 .. NumDocs
VarNames == { Program[i].name : i \in { j \in 1 .. Len(Program) : Program[j].op = "Node" } }

\* the with statement that opens diagram d
DiagramStmt(d) ==
    Program[CHOOSE i \in 1 .. Len(Program) :
                Program[i].op = "DiagramEnter" /\ CountOp(Program, "DiagramEnter", i) = d]

IsEnter(s) == s.op \in {"DiagramEnter", "ClusterEnter"}
IsExit(s) == s.op \in {"DiagramExit", "ClusterExit"}

\* number of with blocks open after statement i
Depth(i) ==
    Cardinality({ j \in 1 .. i : IsEnter(Program[j]) })
    - Cardinality({ j \in 1 .. i : IsExit(Program[j]) })

\* Where an exception raised before statement p is handled next: the end of
\* the innermost with block open at p (its __exit__ runs), or past the end of
\* the script when p is at the top level (the interpreter reports it and ends).
EnclosingExit(p) ==
    LET ends == { q \in p .. Len(Program) : Depth(q) < Depth(p - 1) } IN
    IF ends = {} THEN Len(Program) + 1
    ELSE CHOOSE q \in ends : \A r \in ends : q <= r

----------------------------------------------------------------------------
(* Entries of a graph body and lines of the description given to the engine *)

Entry(t, id, to, label, kind, color, style, body) ==
    [t |-> t, id |-> id, to |-> to, label |-> label, kind |-> kind,
     color |-> color, style |-> style, body |-> body]

NodeEntry(id, n) == Entry("node", id, 0, n.label, n.kind, "", "", <<>>)
\* Diagram.connect: dot.edge(src.nodeid, dst.nodeid, **edge.attrs); >> sets forward
EdgeEntry(src, dst, s) == Entry("edge", src, dst, s.label, "forward", s.color, s.style, <<>>)
\* a sub-graph attached before its block is populated
SubgraphEntryEarly(c, label, body) == Entry("subgraph", c, 0, label, "", "", "", <<>>)

\* Digraph.subgraph(child): the child's body as it is at the call
SubgraphEntry(c, label, body) == Entry("subgraph", c, 0, label, "", "", "", body)

Line(t, e) ==
    [t |-> t, id |-> e.id, to |-> e.to, label |-> e.label, kind |-> e.kind,
     color |-> e.color, style |-> e.style]

RECURSIVE Flatten(_)
\* the statements of a body in order, a sub-graph as a nested block
Flatten(body) ==
    IF body = <<>> THEN <<>>
    ELSE LET e == Head(body) IN
         (IF e.t = "subgraph"
          THEN <<Line("open", e)>> \o Flatten(e.body) \o <<Line("close", e)>>
          ELSE <<Line(e.t, e)>>) \o Flatten(Tail(body))

\* the root graph: its name, its direction attribute, then its body
Header(d) == [t |-> "digraph", id |-> d, to |-> 0, label |-> DiagramStmt(d).label,
              kind |-> DiagramStmt(d).kind, color |-> "", style |-> ""]
Footer(d) == [Header(d) EXCEPT !.t = "end"]
Serialize(d, body) == <<Header(d)>> \o Flatten(body) \o <<Footer(d)>>

----------------------------------------------------------------------------
(* The package's operations                                                 *)

\* a builder that ignores the open cluster
OwnerRoot(cur) == 0

\* getcluster(): the scope a new node or cluster is attached to
Owner(cur) == cur

\* an exit that leaves the closed cluster as the current scope
ScopeStays(c) == c

\* Cluster.__exit__: setcluster(self._parent)
ScopeAfterExit(c) == clusters[c].parent

\* an entry of a cluster registered in the root graph as well
AddToBoth(db, cb, d, c, e) ==
    IF c = 0 THEN <<[db EXCEPT ![d] = Append(@, e)], cb>>
    ELSE <<[db EXCEPT ![d] = Append(@, e)], [cb EXCEPT ![c] = Append(@, e)]>>

\* graph bodies after adding entry e to cluster c, or to diagram d's root if c = 0
AddTo(db, cb, d, c, e) ==
    IF c = 0 THEN <<[db EXCEPT ![d] = Append(@, e)], cb>>
    ELSE <<db, [cb EXCEPT ![c] = Append(@, e)]>>

\* Node.connect: self._diagram.connect(self, node, edge)
EdgeDiagram(src) == nodes[src].diagram

\* a list of sources connected through its first member only
ConnectFirst(db, srcs, dst, s) ==
    LET src == globals[Head(srcs)] IN
    [db EXCEPT ![nodes[src].diagram] = Append(@, EdgeEntry(src, dst, s))]

RECURSIVE ConnectAll(_, _, _, _)
\* Node.__rrshift__ / Edge.connect: one connect per source, in list order
ConnectAll(db, srcs, dst, s) ==
    IF srcs = <<>> THEN db
    ELSE LET src == globals[Head(srcs)] IN
         ConnectAll([db EXCEPT ![EdgeDiagram(src)] = Append(@, EdgeEntry(src, dst, s))],
                    Tail(srcs), dst, s)

\* graphviz render: what the engine invocation can end with
Outcomes == {"ok", "EngineUnavailable", "EngineInvocationFailed"}
\* ExecutableNotFound / CalledProcessError are raised to the caller
Raises(outcome) == outcome # "ok"

\* an exit status that ignores the exception
ExitStatusZero(e) == 0

\* interpreter exit status: 1 after an uncaught exception
ExitStatus(e) == IF e = "none" THEN 0 ELSE 1

\* the print calls of the __main__ block
Summary == << "Architecture diagrams generated successfully:",
              "- shopify-plugin-complete-architecture.png",
              "- oauth-flow-detailed-sequence.png",
              "- shopify-api-operations.png" >>

----------------------------------------------------------------------------
Running == exitCode = -1 /\ pc <= Len(Program)
Cur == Program[pc]

\* control after the current statement, with exception e pending or "none"
Goto(e) == IF e = "none" THEN pc + 1 ELSE EnclosingExit(pc + 1)
Continue(e) ==
    /\ pc' = Goto(e)
    /\ exc' = e
    /\ exitCode' = IF Goto(e) > Len(Program) THEN ExitStatus(e) ELSE -1

Init ==
    /\ pc = 1
    /\ diagram = 0
    /\ cluster = 0
    /\ globals = [v \in VarNames |-> 0]
    /\ nodes = <<>>
    /\ clusters = <<>>
    /\ dbody = [d \in Docs |-> <<>>]
    /\ cbody = <<>>
    /\ status = [d \in Docs |-> "NotStarted"]
    /\ cause = [d \in Docs |-> "none"]
    /\ source = [d \in Docs |-> <<>>]
    /\ artifacts = {}
    /\ blocks = <<>>
    /\ exc = "none"
    /\ exitCode = -1
    /\ stdout = <<>>

\* with Diagram(...): Diagram.__init__ and __enter__ (setdiagram(self))
DiagramEnter ==
    /\ Running /\ Cur.op = "DiagramEnter"
    /\ LET d == CountOp(Program, "DiagramEnter", pc) IN
       /\ diagram' = d
       /\ status' = [status EXCEPT ![d] = "Building"]
       /\ blocks' = Append(blocks, [t |-> "diagram", id |-> d])
    /\ Continue(exc)
    /\ UNCHANGED <<cluster, globals, nodes, clusters, dbody, cbody, cause, source,
                   artifacts, stdout>>

\* var = Kind(label): Node.__init__ adds the node to the current cluster's
\* graph, or to the diagram's root graph outside any cluster
CreateNode ==
    /\ Running /\ Cur.op = "Node"
    /\ IF diagram = 0
       THEN /\ Continue("EnvironmentError")
            /\ UNCHANGED <<globals, nodes, dbody, cbody>>
       ELSE LET id == Len(nodes) + 1
                n == [var |-> Cur.name, label |-> Cur.label, kind |-> Cur.kind,
                      diagram |-> diagram, cluster |-> Owner(cluster)]
                b == AddTo(dbody, cbody, n.diagram, n.cluster, NodeEntry(id, n))
            IN /\ nodes' = Append(nodes, n)
               /\ dbody' = b[1]
               /\ cbody' = b[2]
               /\ globals' = [globals EXCEPT ![Cur.name] = id]
               /\ Continue(exc)
    /\ UNCHANGED <<diagram, cluster, clusters, status, cause, source, artifacts,
                   blocks, stdout>>

\* with Cluster(label): Cluster.__init__ (parent = getcluster()) and
\* __enter__ (setcluster(self))
ClusterEnter ==
    /\ Running /\ Cur.op = "ClusterEnter"
    /\ IF diagram = 0
       THEN /\ Continue("EnvironmentError")
            /\ UNCHANGED <<cluster, clusters, cbody, blocks>>
       ELSE LET c == Len(clusters) + 1 IN
            /\ clusters' = Append(clusters, [label |-> Cur.label, diagram |-> diagram,
                                             parent |-> Owner(cluster)])
            /\ cbody' = Append(cbody, <<>>)
            /\ cluster' = c
            /\ blocks' = Append(blocks, [t |-> "cluster", id |-> c])
            /\ Continue(exc)
    /\ UNCHANGED <<diagram, globals, nodes, dbody, status, cause, source, artifacts,
                   stdout>>

\* end of a with Cluster block: Cluster.__exit__ adds the cluster's graph to
\* its parent's (or to the diagram's root) and restores the parent scope; it
\* runs also when the block is left by an exception, which stays pending
ClusterExit ==
    /\ Running /\ Cur.op = "ClusterExit"
    /\ LET c == blocks[Len(blocks)].id
           b == AddTo(dbody, cbody, clusters[c].diagram, clusters[c].parent,
                      SubgraphEntry(c, clusters[c].label, cbody[c]))
       IN /\ dbody' = b[1]
          /\ cbody' = b[2]
          /\ cluster' = ScopeAfterExit(c)
    /\ blocks' = SubSeq(blocks, 1, Len(blocks) - 1)
    /\ Continue(exc)
    /\ UNCHANGED <<diagram, globals, nodes, clusters, status, cause, source,
                   artifacts, stdout>>

\* src >> Edge(...) >> dst, src >> dst, [srcs] >> dst: the names are looked up
\* in the module globals, then every source is connected to the target
Connect ==
    /\ Running /\ Cur.op = "Edge"
    /\ IF \E i \in 1 .. Len(Cur.srcs) : Cur.srcs[i] \notin VarNames \/ globals[Cur.srcs[i]] = 0
       THEN /\ Continue("NameError") /\ UNCHANGED dbody
       ELSE IF Cur.name \notin VarNames \/ globals[Cur.name] = 0
       THEN /\ Continue("NameError") /\ UNCHANGED dbody
       ELSE /\ dbody' = ConnectAll(dbody, Cur.srcs, globals[Cur.name], Cur)
            /\ Continue(exc)
    /\ UNCHANGED <<diagram, cluster, globals, nodes, clusters, cbody, status, cause,
                   source, artifacts, blocks, stdout>>

\* end of a with Diagram block: Diagram.__exit__ is entered, nothing more is
\* declared in the block
Seal ==
    /\ Running /\ Cur.op = "DiagramExit"
    /\ LET d == blocks[Len(blocks)].id IN
       /\ status[d] = "Building"
       /\ status' = [status EXCEPT ![d] = "Sealed"]
    /\ UNCHANGED <<pc, diagram, cluster, globals, nodes, clusters, dbody, cbody,
                   cause, source, artifacts, blocks, exc, exitCode, stdout>>

\* Diagram.__exit__: render() writes the description and runs the engine once
\* per format (outformat=["png"]); then setdiagram(None).  An exception of the
\* engine invocation leaves __exit__ at once and reaches the module top level.
Render ==
    /\ Running /\ Cur.op = "DiagramExit"
    /\ LET d == blocks[Len(blocks)].id IN
       /\ status[d] = "Sealed"
       /\ source' = [source EXCEPT ![d] = Serialize(d, dbody[d])]
       /\ \E outcome \in Outcomes :
            IF Raises(outcome)
            THEN /\ status' = [status EXCEPT ![d] = "RenderFailed"]
                 /\ cause' = [cause EXCEPT ![d] = outcome]
                 /\ Continue(outcome)
                 /\ UNCHANGED <<artifacts, diagram>>
            ELSE /\ status' = [status EXCEPT ![d] = "Rendered"]
                 /\ artifacts' = artifacts \cup {<<DiagramStmt(d).name, "png">>}
                 /\ diagram' = 0
                 /\ Continue(exc)
                 /\ UNCHANGED cause
    /\ blocks' = SubSeq(blocks, 1, Len(blocks) - 1)
    /\ UNCHANGED <<cluster, globals, nodes, clusters, dbody, cbody, stdout>>

\* if __name__ == "__main__": the four print calls
Main ==
    /\ Running /\ Cur.op = "Print"
    /\ stdout' = stdout \o Summary
    /\ Continue(exc)
    /\ UNCHANGED <<diagram, cluster, globals, nodes, clusters, dbody, cbody, status,
                   cause, source, artifacts, blocks>>

Next ==
    \/ DiagramEnter
    \/ CreateNode
    \/ ClusterEnter
    \/ ClusterExit
    \/ Connect
    \/ Seal
    \/ Render
    \/ Main

Spec == Init /\ [][Next]_vars

----------------------------------------------------------------------------
(* Views of the state used by the properties                                *)

Terminal == {"Rendered", "RenderFailed"}
Closed == {"Sealed", "Rendered", "RenderFailed"}
Finished == exitCode # -1

\* the clusters of the open with blocks, outermost first
OpenClusters == { blocks[i].id : i \in { j \in DOMAIN blocks : blocks[j].t = "cluster" } }
TopCluster ==
    IF blocks # <<>> /\ blocks[Len(blocks)].t = "cluster" THEN blocks[Len(blocks)].id ELSE 0

\* the graphs whose body holds entity <<t, id>> as a direct member:
\* <<"diagram", d>> for a root graph, <<"cluster", c>> for a sub-graph
Holds(body, t, id) == \E i \in DOMAIN body : body[i].t = t /\ body[i].id = id
Holders(t, id) ==
    { <<"diagram", d>> : d \in { x \in Docs : Holds(dbody[x], t, id) } }
    \cup { <<"cluster", c>> : c \in { x \in DOMAIN cbody : Holds(cbody[x], t, id) } }

\* the owner an entity was created with: its cluster, or its diagram's root
OwnerOf(e) == IF e.cluster = 0 THEN <<"diagram", e.diagram>> ELSE <<"cluster", e.cluster>>
ClusterOwner(c) ==
    IF clusters[c].parent = 0 THEN <<"diagram", clusters[c].diagram>>
    ELSE <<"cluster", clusters[c].parent>>

RECURSIVE Ancestors(_, _)
\* the clusters reached from c by at most n parent links
Ancestors(c, n) ==
    IF n = 0 \/ clusters[c].parent = 0 THEN {}
    ELSE {clusters[c].parent} \cup Ancestors(clusters[c].parent, n - 1)

\* the edge entries of diagram d, in order
EdgeList(d) == SelectSeq(dbody[d], LAMBDA e : e.t = "edge")
NodeSet(d) == { n \in DOMAIN nodes : nodes[n].diagram = d }
ClusterSet(d) == { c \in DOMAIN clusters : clusters[c].diagram = d }

----------------------------------------------------------------------------
\* C1: the cluster containment relation is a tree rooted at the document: no
\* cluster is among its own ancestors, every node is a direct member of
\* exactly one graph body, the one of the scope it was created in, and every
\* cluster whose block has closed is a direct member of exactly one body, its
\* parent's; a cluster whose block is still open is in no body yet and is
\* owned by its parent field alone; owner and owned are of the same document.
C1_ClusterTree ==
    /\ \A c \in DOMAIN clusters :
        /\ c \notin Ancestors(c, Len(clusters))
        /\ clusters[c].parent \in (0 .. Len(clusters)) \ {c}
        /\ clusters[c].parent # 0 => clusters[clusters[c].parent].diagram = clusters[c].diagram
        /\ IF c \in OpenClusters THEN Holders("subgraph", c) = {}
           ELSE Holders("subgraph", c) = {ClusterOwner(c)}
    /\ \A n \in DOMAIN nodes :
        /\ nodes[n].cluster \in 0 .. Len(clusters)
        /\ nodes[n].cluster # 0 => clusters[nodes[n].cluster].diagram = nodes[n].diagram
        /\ Holders("node", n) = {OwnerOf(nodes[n])}
    /\ \A d \in Docs : status[d] \in Closed => OpenClusters \cap ClusterSet(d) = {}

\* the three diagrams are complete, with clusters nested in clusters
C1_Witness ==
    /\ exitCode = 0
    /\ \E c \in DOMAIN clusters : clusters[c].parent # 0
    /\ \E n \in DOMAIN nodes : nodes[n].cluster # 0 /\ clusters[nodes[n].cluster].parent # 0

C3_Step ==
    \A d \in Docs :
        /\ status[d] \in Closed =>
            /\ status'[d] \in Closed
            /\ dbody'[d] = dbody[d]
            /\ { n \in DOMAIN nodes' : nodes'[n].diagram = d } = NodeSet(d)
            /\ { c \in DOMAIN clusters' : clusters'[c].diagram = d } = ClusterSet(d)
            /\ \A c \in ClusterSet(d) : cbody'[c] = cbody[c] /\ clusters'[c] = clusters[c]
        /\ status[d] \in Terminal => status'[d] = status[d]
        /\ status'[d] # status[d] =>
            \/ status[d] = "NotStarted" /\ status'[d] = "Building"
            \/ status[d] = "Building" /\ status'[d] = "Sealed"
            \/ status[d] = "Sealed" /\ status'[d] \in Terminal
C4_AllDocumentsAttempted == Finished => \A d \in Docs : status[d] \in Terminal

\* C6: the process ends with exit code 0 exactly when every document was
\* rendered, with a non-zero code when a render failed, and the summary is
\* printed only when all three documents are Rendered.
C6_ExitCode ==
    /\ Finished =>
        /\ exitCode = 0 <=> \A d \in Docs : status[d] = "Rendered"
        /\ (\E d \in Docs : status[d] = "RenderFailed") => exitCode # 0
    /\ stdout # <<>> => stdout = Summary /\ \A d \in Docs : status[d] = "Rendered"
    /\ artifacts = { <<DiagramStmt(d).name, "png">> : d \in { x \in Docs : status[x] = "Rendered" } }

\* a run in which the second render fails
C6_Witness ==
    /\ exitCode = 1
    /\ status[1] = "Rendered" /\ status[2] = "RenderFailed"
    /\ stdout = <<>>

----------------------------------------------------------------------------
(* The declarations of the script read in order, without executing them:    *)
(* the reference the executed state is compared with.                       *)

DocFirst(d) ==
    CHOOSE i \in 1 .. Len(Program) :
        Program[i].op = "DiagramEnter" /\ CountOp(Program, "DiagramEnter", i) = d
DocLast(d) ==
    CHOOSE i \in 1 .. Len(Program) :
        Program[i].op = "DiagramExit" /\ CountOp(Program, "DiagramExit", i) = d
Inside(d) == (DocFirst(d) + 1) .. (DocLast(d) - 1)

Max(S) == CHOOSE x \in S : \A y \in S : y <= x

\* the with Cluster statement whose block ends at statement i
MatchingEnter(i) ==
    Max({ j \in 1 .. (i - 1) : Program[j].op = "ClusterEnter" /\ Depth(j - 1) = Depth(i) })
\* the innermost with Cluster statement whose block holds statement i (0: none)
EnclosingCluster(i) ==
    LET js == { j \in 1 .. (i - 1) :
                  /\ Program[j].op = "ClusterEnter"
                  /\ \A k \in j .. (i - 1) : Depth(k) >= Depth(j) }
    IN IF js = {} THEN 0 ELSE Max(js)
\* the latest declaration of variable v before statement i (0: none)
Declaration(v, i) ==
    LET js == { j \in 1 .. (i - 1) : Program[j].op = "Node" /\ Program[j].name = v }
    IN IF js = {} THEN 0 ELSE Max(js)

\* ordinal of a declaration among the declarations of its kind (0 for none)
Ordinal(op, i) == IF i = 0 THEN 0 ELSE CountOp(Program, op, i)

\* number of lines statement i declares
Emits(i) ==
    IF Program[i].op = "Edge" THEN Len(Program[i].srcs)
    ELSE IF Program[i].op \in {"Node", "ClusterEnter", "ClusterExit"} THEN 1
    ELSE 0
\* number of lines declared in diagram d before statement i
Before(d, i) ==
    Cardinality(UNION { { <<j, k>> : k \in 1 .. Emits(j) } : j \in (DocFirst(d) + 1) .. (i - 1) })
\* the statement that declares line n of diagram d
StmtOfLine(d, n) ==
    CHOOSE i \in Inside(d) : Before(d, i) < n /\ n <= Before(d, i) + Emits(i)

\* line n of diagram d by object identity (ids in order of creation)
DeclaredLine(d, n) ==
    LET i == StmtOfLine(d, n)
        k == n - Before(d, i)
        s == Program[i]
    IN CASE s.op = "Node" ->
              [t |-> "node", id |-> Ordinal("Node", i), to |-> 0, label |-> s.label,
               kind |-> s.kind, color |-> "", style |-> ""]
         [] s.op = "ClusterEnter" ->
              [t |-> "open", id |-> Ordinal("ClusterEnter", i), to |-> 0,
               label |-> s.label, kind |-> "", color |-> "", style |-> ""]
         [] s.op = "ClusterExit" ->
              [t |-> "close", id |-> Ordinal("ClusterEnter", MatchingEnter(i)), to |-> 0,
               label |-> Program[MatchingEnter(i)].label, kind |-> "", color |-> "",
               style |-> ""]
         [] s.op = "Edge" ->
              [t |-> "edge", id |-> Ordinal("Node", Declaration(s.srcs[k], i)),
               to |-> Ordinal("Node", Declaration(s.name, i)), label |-> s.label,
               kind |-> "forward", color |-> s.color, style |-> s.style]

\* line n of diagram d by name, from the statements of d's block alone
NamedLine(d, n) ==
    LET i == StmtOfLine(d, n)
        k == n - Before(d, i)
        s == Program[i]
    IN CASE s.op = "Node" -> <<"node", s.name, s.kind, s.label>>
         [] s.op = "ClusterEnter" -> <<"open", s.label>>
         [] s.op = "ClusterExit" -> <<"close", Program[MatchingEnter(i)].label>>
         [] s.op = "Edge" -> <<"edge", s.srcs[k], s.name, s.label, s.color, s.style>>

DeclaredSource ==
    [d \in Docs |->
        << [t |-> "digraph", id |-> d, to |-> 0, label |-> Program[DocFirst(d)].label,
            kind |-> Program[DocFirst(d)].kind, color |-> "", style |-> ""] >>
        \o [n \in 1 .. Before(d, DocLast(d)) |-> DeclaredLine(d, n)]
        \o << [t |-> "end", id |-> d, to |-> 0, label |-> Program[DocFirst(d)].label,
               kind |-> Program[DocFirst(d)].kind, color |-> "", style |-> ""] >>]

BuiltAlone ==
    [d \in Docs |-> [n \in 1 .. Before(d, DocLast(d)) |-> NamedLine(d, n)]]

\* a line of an emitted description with object ids replaced by names
Named(l) ==
    CASE l.t = "node" -> <<"node", nodes[l.id].var, l.kind, l.label>>
      [] l.t \in {"open", "close"} -> <<l.t, clusters[l.id].label>>
      [] l.t = "edge" -> <<"edge", nodes[l.id].var, nodes[l.to].var, l.label, l.color, l.style>>
\* the description of diagram d's present graph, by name, without header and footer
NamedGraph(d) ==
    LET src == Serialize(d, dbody[d]) IN
    [n \in 1 .. (Len(src) - 2) |-> Named(src[n + 1])]

\* the document in whose block the n-th node / c-th cluster is declared
NodeDoc(n) ==
    CountOp(Program, "DiagramEnter",
            CHOOSE i \in 1 .. Len(Program) :
                Program[i].op = "Node" /\ CountOp(Program, "Node", i) = n)
ClusterStmt(c) ==
    CHOOSE i \in 1 .. Len(Program) :
        Program[i].op = "ClusterEnter" /\ CountOp(Program, "ClusterEnter", i) = c
NodeStmt(n) ==
    CHOOSE i \in 1 .. Len(Program) : Program[i].op = "Node" /\ CountOp(Program, "Node", i) = n

----------------------------------------------------------------------------
C9_ScopeStack ==
    /\ cluster = TopCluster
    /\ \A i \in DOMAIN blocks : blocks[i].t = "cluster" =>
        clusters[blocks[i].id].parent =
            (IF blocks[i - 1].t = "cluster" THEN blocks[i - 1].id ELSE 0)
    /\ \A n \in DOMAIN nodes :
        nodes[n].cluster = Ordinal("ClusterEnter", EnclosingCluster(NodeStmt(n)))
    /\ \A c \in DOMAIN clusters :
        clusters[c].parent = Ordinal("ClusterEnter", EnclosingCluster(ClusterStmt(c)))
    /\ \A d \in Docs : status[d] = "Sealed" =>
        cluster = 0 /\ blocks = << [t |-> "diagram", id |-> d] >>

\* a second cluster was opened in a parent after its first child closed, and
\* holds a node; a later cluster is again a child of the root
C9_Witness ==
    \E c1, c2, c3 \in DOMAIN clusters :
        /\ c1 < c2 /\ c2 < c3
        /\ clusters[c1].parent # 0 /\ clusters[c2].parent = clusters[c1].parent
        /\ clusters[c3].parent = 0 /\ clusters[c3].diagram = clusters[c2].diagram
        /\ \E n \in DOMAIN nodes : nodes[n].cluster = c2
        /\ \E n \in DOMAIN nodes : nodes[n].cluster = c3

\* C10: an edge statement with N sources appends exactly N edges to the edge
\* list of the document, the k-th from the k-th source to the target, all
\* with the statement's attributes; the edges already there stay, also one
\* between the same pair; no node or cluster is created and no cluster body,
\* scope or other document changes.
C10_Step ==
    (Running /\ Cur.op = "Edge") =>
        LET d == diagram
            old == Len(dbody[d])
            N == Len(Cur.srcs)
        IN /\ Len(dbody'[d]) = old + N
           /\ SubSeq(dbody'[d], 1, old) = dbody[d]
           /\ \A k \in 1 .. N :
                dbody'[d][old + k] =
                    [t |-> "edge", id |-> globals[Cur.srcs[k]], to |-> globals[Cur.name],
                     label |-> Cur.label, kind |-> "forward", color |-> Cur.color,
                     style |-> Cur.style, body |-> <<>>]
           /\ \A e \in Docs \ {d} : dbody'[e] = dbody[e]
           /\ nodes' = nodes /\ clusters' = clusters /\ cbody' = cbody
           /\ cluster' = cluster /\ globals' = globals
\* C10: every edge statement of the script adds exactly its N edges, as above
C10_FanOut == [][C10_Step]_vars

\* the three-source edge statement has run, and the second document holds
\* two equal edges between the same pair
C10_Witness ==
    /\ exitCode = 0
    /\ LET e == EdgeList(3) IN
       /\ \A k \in 0 .. 2 : e[Len(e) - k].to = globals["logs"]
       /\ { e[Len(e) - k].id : k \in 0 .. 2 } =
              { globals["oauth_lambda"], globals["auth_lambda"], globals["main_lambda"] }
    /\ \E i, j \in DOMAIN EdgeList(2) : i < j /\ EdgeList(2)[i] = EdgeList(2)[j]

====
